---------------------------- MODULE Spec2Model ----------------------------
(***************************************************************************)
(* Model of src/src/app.c: six FreeRTOS tasks around a fixed pool of       *)
(* sample buffers (buffer_queue), a one-slot FreeRTOS queue carrying the   *)
(* accelerometer vector, and three binary semaphores (reply, error,        *)
(* config).                                                                *)
(*                                                                         *)
(* The scheduler is preemptive, so a task can lose the processor between   *)
(* any two calls.  Each action below is one run of a task from one         *)
(* blocking or shared-state call to the next; the calls on the pool, the   *)
(* queue and the semaphores are atomic (FreeRTOS critical sections).       *)
(* Variables named g_* are history variables: they record what happened    *)
(* and are never read by the program's actions.                            *)
(***************************************************************************)
EXTENDS Integers, Sequences, FiniteSets, TLC

(* ------------------------------ bounds -------------------------------- *)
\* Number of buffers of the pool (app.h, used at app.c:21 and app.c:247).
APP_DATA_BUF_NMBR == 3
\* Samples per buffer (app.h, used at app.c:21, app.c:91 and app.c:139).
APP_DATA_BUF_SIZE == 2
\* Pushes the history variables follow beyond one full pool.
ExtraPush == 1
\* Button events (calls of config_update that change something) followed.
MaxEvents == 20

\* Pushes followed where the contents of the buffers, or the rate, are
\* followed too.
MaxScalePush == 2
\* Button events followed where the producer runs beside vTaskConfig.
MaxRateEvents == 1

MaxPush == APP_DATA_BUF_NMBR + ExtraPush

(* ------------------------- program constants -------------------------- *)
NULL == 0
\* debouncer_init(&button, 2, pin): samples needed to accept a level.
DEBOUNCE_SAMPLES == 2
\* app->config.sample_period = 0: the fastest rate.
APP_ADC_MIN_RATE == 0
\* "Sabemos que el periodo nunca es >9".
APP_ADC_MAX_RATE == 9
\* xQueueCreate(1, sizeof(float[3])).
QUEUE_MPU_LENGTH == 1

Buffers == 1..APP_DATA_BUF_NMBR
\* Vectors mpu_get_accelerometer can produce.
AccelValues == { <<1, 2, 3>>, <<2, 0, 1>>, <<3, 3, 0>>, <<0, 1, 2>> }
AccelZero == <<0, 0, 0>>
\* Readings adc_read can return; the buffers hold them as uint8_t.
AdcValues == { 10, 456 }
\* buffer_queue_mem: APP_DATA_BUF_NMBR slots of APP_DATA_BUF_SIZE bytes.
MemCells == 1..(APP_DATA_BUF_SIZE * APP_DATA_BUF_NMBR)

VARIABLES
    Free,               \* data_queue: buffers available to the producer
    Queued,             \* data_queue: full buffers, oldest first
    adc_pc,             \* vTaskADC / adc_update: position
    adc_buf,            \* adc_update: local buf on the reclaim path
    current_buffer,     \* app->current_buffer
    samples_in_buffer,  \* app->samples_in_buffer
    xTaskDelay,         \* vTaskADC: xTaskDelay, in ms
    app_pc,             \* vTaskApp / app_update: position
    app_buf,            \* app_update: local buf
    accel,              \* app->accel
    queue_mpu,          \* app->queue_mpu
    semaphore_reply,    \* app->semaphore_reply
    semaphore_error,    \* app->semaphore_error
    semaphore_config,   \* app->semaphore_config
    err_pc,             \* vTaskError: position
    LED_1,              \* the fault indicator
    cfg_pc,             \* vTaskConfig: position
    sample_period,      \* app->config.sample_period
    config_sd_present,  \* app->config_sd_present
    button_left,        \* app->button_left
    button_right,       \* app->button_right
    g_npush,            \* number of buffers the producer has pushed
    g_tag,              \* g_tag[b]: which push filled buffer b (0: none)
    g_delivered,        \* pushes handed to the consumer, in order
    g_discarded,        \* pushes reclaimed by the producer
    g_app_tag,          \* the push the consumer is working on
    g_app_errs,         \* error signals raised for that push
    g_app_rel,          \* the buffer the consumer returned for that push
    g_ack_in_window,    \* a byte arrived since that push was forwarded
    g_last_sent,        \* the vector of the latest xQueueSendToBack
    g_events,           \* calls of config_update with a button event
    g_changes,          \* of which changed sample_period
    g_config_write,     \* calls of config_write
    g_ups,              \* of the events, those asking for +1
    g_period0,          \* the period vTaskConfig started from
    buffer_queue_mem,   \* buffer_queue_mem: the bytes of all the buffers
    adc_in,             \* what adc_read(APP_ADC_CHANNEL) returns now
    g_written,          \* samples written since the last acquisition
    g_forwarded,        \* arguments of bluetooth_write for the batch held
    g_last_recv,        \* the latest vector xQueueReceive handed over
    g_err_in_hold       \* the pending error signal was given during a hold

poolVars == <<Free, Queued>>
adcVars == <<adc_pc, adc_buf, current_buffer, samples_in_buffer, xTaskDelay>>
appVars == <<app_pc, app_buf, accel>>
errVars == <<err_pc, LED_1>>
cfgVars == <<cfg_pc, sample_period, config_sd_present, button_left, button_right>>
g_poolVars == <<g_npush, g_tag, g_delivered, g_discarded>>
g_appVars == <<g_app_tag, g_app_errs, g_app_rel, g_ack_in_window>>
g_cfgVars == <<g_events, g_changes, g_config_write, g_ups, g_period0>>
memVars == <<buffer_queue_mem, adc_in, g_written>>
g_fwdVars == <<g_forwarded, g_last_recv>>
extVars == <<memVars, g_fwdVars, g_err_in_hold>>

vars == <<poolVars, adcVars, appVars, queue_mpu, semaphore_reply,
          semaphore_error, semaphore_config, errVars, cfgVars,
          g_poolVars, g_appVars, g_last_sent, g_cfgVars, extVars>>

(* --------------------------- buffer_queue ----------------------------- *)
\* buffer_queue_init: every buffer of the pool starts Free.
buffer_queue_init == [free |-> Buffers, queued |-> <<>>]

\* buffer_queue_get_avail(q, 0): the buffers it may hand out.
buffer_queue_get_avail(free) == free

\* buffer_queue_get_inuse: the oldest full buffer, NULL when there is none.
buffer_queue_get_inuse(queued) == IF queued = <<>> THEN NULL ELSE Head(queued)

\* buffer_queue_push: a full buffer goes to the back of the queue.
buffer_queue_push(queued, b) == Append(queued, b)

\* buffer_queue_return: a buffer goes back to the free ones.
buffer_queue_return(free, b) == free \cup {b}

(* ------------------------------- Init --------------------------------- *)
\* A debouncer as debouncer_init leaves it: level hi (released), no edge.
debouncer_init == [state |-> TRUE, count |-> 0, edge |-> FALSE]

Init ==
    /\ Free = buffer_queue_init.free
    /\ Queued = buffer_queue_init.queued
    /\ adc_pc = "init"
    /\ adc_buf = NULL
    /\ current_buffer = NULL
    /\ samples_in_buffer = 0
    /\ xTaskDelay = 0
    /\ app_pc = "recv"
    /\ app_buf = NULL
    /\ accel = AccelZero
    /\ queue_mpu = <<>>
    /\ semaphore_reply = 0
    /\ semaphore_error = 0
    /\ semaphore_config = 0
    /\ err_pc = "wait"
    /\ LED_1 = 0
    /\ cfg_pc = "init"
    /\ sample_period = 0
    /\ config_sd_present = 0
    /\ button_left = debouncer_init
    /\ button_right = debouncer_init
    /\ g_npush = 0
    /\ g_tag = [b \in Buffers |-> 0]
    /\ g_delivered = <<>>
    /\ g_discarded = {}
    /\ g_app_tag = 0
    /\ g_app_errs = 0
    /\ g_app_rel = NULL
    /\ g_ack_in_window = FALSE
    /\ g_last_sent = AccelZero
    /\ g_events = 0
    /\ g_changes = 0
    /\ g_config_write = 0
    /\ g_ups = 0
    /\ g_period0 = 0
    /\ buffer_queue_mem = [a \in MemCells |-> 0]
    /\ adc_in = 10
    /\ g_written = 0
    /\ g_forwarded = <<>>
    /\ g_last_recv = <<>>
    /\ g_err_in_hold = FALSE


(* ----------------------- vTaskADC / adc_update ------------------------ *)
\* pdMS_TO_TICKS((sample_period+1)*10 * DBG_PERIOD_MULTIPLIER), in ms.
AdcDelay(period) == (period + 1) * 10

\* vTaskADC before its loop: the first delay, adc_init, no buffer held.
AdcInit ==
    /\ adc_pc = "init"
    /\ xTaskDelay' = AdcDelay(sample_period)
    /\ current_buffer' = NULL
    /\ adc_pc' = "update"
    /\ UNCHANGED <<adc_buf, samples_in_buffer>>
    /\ UNCHANGED <<poolVars, appVars, queue_mpu, semaphore_reply,
                   semaphore_error, semaphore_config, errVars, cfgVars,
                   g_poolVars, g_appVars, g_last_sent, extVars, g_cfgVars>>

\* AdcGetAvail without "app->samples_in_buffer = 0": the counter of the
\* buffer pushed before is kept for the new one.
AdcGetAvail_NoReset ==
    /\ adc_pc = "update"
    /\ current_buffer = NULL
    /\ IF buffer_queue_get_avail(Free) # {}
          THEN \E b \in buffer_queue_get_avail(Free) :
                 /\ Free' = Free \ {b}
                 /\ current_buffer' = b
                 /\ g_written' = 0
                 /\ adc_pc' = "read"
          ELSE /\ adc_pc' = "reclaim"
               /\ UNCHANGED <<Free, current_buffer, g_written>>
    /\ UNCHANGED <<Queued, adc_buf, xTaskDelay, buffer_queue_mem, adc_in,
                   samples_in_buffer>>
    /\ UNCHANGED <<appVars, queue_mpu, semaphore_reply, semaphore_error,
                   semaphore_config, errVars, cfgVars, g_poolVars,
                   g_appVars, g_last_sent, g_fwdVars, g_err_in_hold,
                   g_cfgVars>>

\* adc_update with no buffer held: buffer_queue_get_avail(q, 0).  With a
\* buffer the counter is reset and the buffer kept; without one the
\* producer goes on to the reclaim.
AdcGetAvail ==
    /\ adc_pc = "update"
    /\ current_buffer = NULL
    /\ IF buffer_queue_get_avail(Free) # {}
          THEN \E b \in buffer_queue_get_avail(Free) :
                 /\ Free' = Free \ {b}
                 /\ current_buffer' = b
                 /\ samples_in_buffer' = 0
                 /\ g_written' = 0
                 /\ adc_pc' = "read"
          ELSE /\ adc_pc' = "reclaim"
               /\ UNCHANGED <<Free, current_buffer, samples_in_buffer,
                              g_written>>
    /\ UNCHANGED <<Queued, adc_buf, xTaskDelay, buffer_queue_mem, adc_in>>
    /\ UNCHANGED <<appVars, queue_mpu, semaphore_reply, semaphore_error,
                   semaphore_config, errVars, cfgVars, g_poolVars,
                   g_appVars, g_last_sent, g_fwdVars, g_err_in_hold,
                   g_cfgVars>>

\* AdcReclaimGet without the reclaim: a failed buffer_queue_get_avail is
\* the error at once.
AdcReclaimGet_NoReclaim ==
    /\ adc_pc = "reclaim"
    /\ samples_in_buffer' = 0
    /\ current_buffer' = NULL
    /\ adc_pc' = "config"
    /\ UNCHANGED <<Free, Queued, adc_buf, xTaskDelay>>
    /\ UNCHANGED <<appVars, queue_mpu, semaphore_reply, semaphore_error,
                   semaphore_config, errVars, cfgVars, g_poolVars,
                   g_appVars, g_last_sent, extVars, g_cfgVars>>

\* AdcReclaimGet taking the newest queued buffer instead of the oldest.
AdcReclaimGet_Newest ==
    /\ adc_pc = "reclaim"
    /\ IF Queued # <<>>
          THEN /\ adc_buf' = Queued[Len(Queued)]
               /\ Queued' = SubSeq(Queued, 1, Len(Queued) - 1)
               /\ adc_pc' = "reclaim_return"
               /\ UNCHANGED <<current_buffer, samples_in_buffer>>
          ELSE /\ samples_in_buffer' = 0
               /\ current_buffer' = NULL
               /\ adc_pc' = "config"
               /\ UNCHANGED <<Queued, adc_buf>>
    /\ UNCHANGED <<Free, xTaskDelay>>
    /\ UNCHANGED <<appVars, queue_mpu, semaphore_reply, semaphore_error,
                   semaphore_config, errVars, cfgVars, g_poolVars,
                   g_appVars, g_last_sent, extVars, g_cfgVars>>

\* The reclaim, first half: buffer_queue_get_inuse(q, 0).  With nothing
\* queued this is the "ERROR" branch: no buffer this cycle.
AdcReclaimGet ==
    /\ adc_pc = "reclaim"
    /\ IF buffer_queue_get_inuse(Queued) # NULL
          THEN /\ adc_buf' = buffer_queue_get_inuse(Queued)
               /\ Queued' = Tail(Queued)
               /\ adc_pc' = "reclaim_return"
               /\ UNCHANGED <<current_buffer, samples_in_buffer>>
          ELSE /\ samples_in_buffer' = 0
               /\ current_buffer' = NULL
               /\ adc_pc' = "config"
               /\ UNCHANGED <<Queued, adc_buf>>
    /\ UNCHANGED <<Free, xTaskDelay>>
    /\ UNCHANGED <<appVars, queue_mpu, semaphore_reply, semaphore_error,
                   semaphore_config, errVars, cfgVars, g_poolVars,
                   g_appVars, g_last_sent, extVars, g_cfgVars>>

\* AdcReclaimReturn calling buffer_queue_push instead of
\* buffer_queue_return: the oldest buffer goes to the back of the queue.
AdcReclaimReturn_Requeues ==
    /\ adc_pc = "reclaim_return"
    /\ Queued' = buffer_queue_push(Queued, adc_buf)
    /\ adc_buf' = NULL
    /\ samples_in_buffer' = 0
    /\ current_buffer' = NULL
    /\ adc_pc' = "config"
    /\ UNCHANGED <<Free, xTaskDelay, g_poolVars>>
    /\ UNCHANGED <<appVars, queue_mpu, semaphore_reply, semaphore_error,
                   semaphore_config, errVars, cfgVars, g_appVars,
                   g_last_sent, extVars, g_cfgVars>>

\* AdcReclaimReturn without the call of buffer_queue_return: the buffer
\* taken from the queue is dropped.
AdcReclaimReturn_Leaks ==
    /\ adc_pc = "reclaim_return"
    /\ adc_buf' = NULL
    /\ samples_in_buffer' = 0
    /\ current_buffer' = NULL
    /\ adc_pc' = "config"
    /\ g_discarded' = g_discarded \cup {g_tag[adc_buf]}
    /\ g_tag' = [g_tag EXCEPT ![adc_buf] = 0]
    /\ UNCHANGED <<Free, Queued, xTaskDelay, g_npush, g_delivered>>
    /\ UNCHANGED <<appVars, queue_mpu, semaphore_reply, semaphore_error,
                   semaphore_config, errVars, cfgVars, g_appVars,
                   g_last_sent, extVars, g_cfgVars>>

\* The reclaim, second half: buffer_queue_return of the buffer taken, then
\* buf = NULL, so that no sample is read in this cycle.
AdcReclaimReturn ==
    /\ adc_pc = "reclaim_return"
    /\ Free' = buffer_queue_return(Free, adc_buf)
    /\ adc_buf' = NULL
    /\ samples_in_buffer' = 0
    /\ current_buffer' = NULL
    /\ adc_pc' = "config"
    /\ g_discarded' = g_discarded \cup {g_tag[adc_buf]}
    /\ g_tag' = [g_tag EXCEPT ![adc_buf] = 0]
    /\ UNCHANGED <<Queued, xTaskDelay, g_npush, g_delivered>>
    /\ UNCHANGED <<appVars, queue_mpu, semaphore_reply, semaphore_error,
                   semaphore_config, errVars, cfgVars, g_appVars,
                   g_last_sent, extVars, g_cfgVars>>

\* Where byte i (from 0) of buffer b lies in buffer_queue_mem.
BufAddr(b, i) == (b - 1) * APP_DATA_BUF_SIZE + i + 1

\* The bytes of buffer b, first to last.
BufBytes(mem, b) == [i \in 1..APP_DATA_BUF_SIZE |-> mem[BufAddr(b, i - 1)]]

\* buf[i] = v for a uint8_t buffer: the reading is cut to 8 bits.  A store
\* past the end of buffer_queue_mem is undefined: nothing, or any byte of
\* the array, changes.
MemWrite(mem, addr, v) ==
    IF addr \in MemCells
       THEN { [mem EXCEPT ![addr] = v % 256] }
       ELSE {mem} \cup { [mem EXCEPT ![c] = v % 256] : c \in MemCells }

\* buf[samples_in_buffer++] = adc_read(...), with the buffer held from an
\* earlier cycle or just acquired.
AdcRead ==
    /\ \/ adc_pc = "update" /\ current_buffer # NULL
       \/ adc_pc = "read"
    /\ buffer_queue_mem' \in
          MemWrite(buffer_queue_mem,
                   BufAddr(current_buffer, samples_in_buffer), adc_in)
    /\ g_written' = g_written + 1
    /\ samples_in_buffer' = samples_in_buffer + 1
    /\ adc_pc' = IF samples_in_buffer' = APP_DATA_BUF_SIZE
                    THEN "push" ELSE "config"
    /\ UNCHANGED <<adc_buf, current_buffer, xTaskDelay, adc_in>>
    /\ UNCHANGED <<poolVars, appVars, queue_mpu, semaphore_reply,
                   semaphore_error, semaphore_config, errVars, cfgVars,
                   g_poolVars, g_appVars, g_last_sent, g_fwdVars,
                   g_err_in_hold, g_cfgVars>>

\* AdcPush without "app->current_buffer = NULL": the pushed buffer is kept.
AdcPush_KeepsBuffer ==
    /\ adc_pc = "push"
    /\ g_npush < MaxPush
    /\ Queued' = buffer_queue_push(Queued, current_buffer)
    /\ adc_pc' = "config"
    /\ g_npush' = g_npush + 1
    /\ g_tag' = [g_tag EXCEPT ![current_buffer] = g_npush + 1]
    /\ UNCHANGED <<Free, adc_buf, current_buffer, samples_in_buffer,
                   xTaskDelay, g_delivered, g_discarded>>
    /\ UNCHANGED <<appVars, queue_mpu, semaphore_reply, semaphore_error,
                   semaphore_config, errVars, cfgVars, g_appVars,
                   g_last_sent, extVars, g_cfgVars>>

\* The buffer is full: buffer_queue_push, and no buffer held any more.
AdcPush ==
    /\ adc_pc = "push"
    /\ g_npush < MaxPush
    /\ Queued' = buffer_queue_push(Queued, current_buffer)
    /\ current_buffer' = NULL
    /\ adc_pc' = "config"
    /\ g_npush' = g_npush + 1
    /\ g_tag' = [g_tag EXCEPT ![current_buffer] = g_npush + 1]
    /\ UNCHANGED <<Free, adc_buf, samples_in_buffer, xTaskDelay,
                   g_delivered, g_discarded>>
    /\ UNCHANGED <<appVars, queue_mpu, semaphore_reply, semaphore_error,
                   semaphore_config, errVars, cfgVars, g_appVars,
                   g_last_sent, extVars, g_cfgVars>>

\* AdcConfig starting over with a new buffer when the configuration
\* changed: the buffer in progress is dropped.
AdcConfig_DropsBuffer ==
    /\ adc_pc = "config"
    /\ IF semaphore_config = 1
          THEN /\ semaphore_config' = 0
               /\ xTaskDelay' = AdcDelay(sample_period)
               /\ current_buffer' = NULL
               /\ samples_in_buffer' = 0
          ELSE UNCHANGED <<semaphore_config, xTaskDelay, current_buffer,
                           samples_in_buffer>>
    /\ adc_pc' = "update"
    /\ UNCHANGED adc_buf
    /\ UNCHANGED <<poolVars, appVars, queue_mpu, semaphore_reply,
                   semaphore_error, errVars, cfgVars, g_poolVars,
                   g_appVars, g_last_sent, extVars, g_cfgVars>>

\* AdcConfig taking the signal without computing the delay again.
AdcConfig_KeepsDelay ==
    /\ adc_pc = "config"
    /\ semaphore_config' = 0
    /\ adc_pc' = "update"
    /\ UNCHANGED <<adc_buf, current_buffer, samples_in_buffer, xTaskDelay>>
    /\ UNCHANGED <<poolVars, appVars, queue_mpu, semaphore_reply,
                   semaphore_error, errVars, cfgVars, g_poolVars,
                   g_appVars, g_last_sent, extVars, g_cfgVars>>

\* vTaskADC after adc_update: xSemaphoreTake(semaphore_config, 0), the new
\* delay when it was given, then vTaskDelayUntil.
AdcConfig ==
    /\ adc_pc = "config"
    /\ IF semaphore_config = 1
          THEN /\ semaphore_config' = 0
               /\ xTaskDelay' = AdcDelay(sample_period)
          ELSE UNCHANGED <<semaphore_config, xTaskDelay>>
    /\ adc_pc' = "update"
    /\ UNCHANGED <<adc_buf, current_buffer, samples_in_buffer>>
    /\ UNCHANGED <<poolVars, appVars, queue_mpu, semaphore_reply,
                   semaphore_error, errVars, cfgVars, g_poolVars,
                   g_appVars, g_last_sent, extVars, g_cfgVars>>

\* The analog input changes: adc_read returns another reading from now on.
AdcSignal ==
    /\ \E v \in AdcValues \ {adc_in} : adc_in' = v
    /\ UNCHANGED <<buffer_queue_mem, g_written, g_fwdVars, g_err_in_hold>>
    /\ UNCHANGED <<poolVars, adcVars, appVars, queue_mpu, semaphore_reply,
                   semaphore_error, semaphore_config, errVars, cfgVars,
                   g_poolVars, g_appVars, g_last_sent, g_cfgVars>>

ProducerNext ==
    \/ AdcInit
    \/ AdcGetAvail
    \/ AdcReclaimGet
    \/ AdcReclaimReturn
    \/ AdcRead
    \/ AdcPush
    \/ AdcConfig

\* The producer alone, as when no other task gets to run.
SpecProducer == Init /\ [][ProducerNext]_vars /\ WF_vars(ProducerNext)

(* ----------------------- vTaskApp / app_update ------------------------ *)
\* xQueueReceive(queue, &item, 0): the front item leaves the queue.
xQueueReceive(queue) == IF queue = <<>> THEN <<>> ELSE Tail(queue)

\* xQueueSendToBack(queue, item, 0): errQUEUE_FULL leaves a full queue as
\* it is; the item is dropped.
xQueueSendToBack(queue, item) ==
    IF Len(queue) < QUEUE_MPU_LENGTH THEN Append(queue, item) ELSE queue

\* app_update, first part: the accelerometer vector, when one is waiting.
AppRecv ==
    /\ app_pc = "recv"
    /\ IF queue_mpu # <<>>
          THEN accel' = Head(queue_mpu)
          ELSE UNCHANGED accel
    /\ queue_mpu' = xQueueReceive(queue_mpu)
    /\ app_pc' = "get_inuse"
    /\ g_last_recv' = IF queue_mpu # <<>> THEN Head(queue_mpu)
                                          ELSE g_last_recv
    /\ UNCHANGED <<app_buf, g_forwarded>>
    /\ UNCHANGED <<poolVars, adcVars, semaphore_reply, semaphore_error,
                   semaphore_config, errVars, cfgVars, g_poolVars,
                   g_appVars, g_last_sent, memVars, g_err_in_hold,
                   g_cfgVars>>

\* buffer_queue_get_inuse(q, timeout) hands over the oldest full buffer.
AppGetInuse ==
    /\ app_pc = "get_inuse"
    /\ buffer_queue_get_inuse(Queued) # NULL
    /\ app_buf' = buffer_queue_get_inuse(Queued)
    /\ Queued' = Tail(Queued)
    /\ app_pc' = "forward"
    /\ g_delivered' = Append(g_delivered, g_tag[app_buf'])
    /\ g_app_tag' = g_tag[app_buf']
    /\ g_app_errs' = 0
    /\ g_app_rel' = NULL
    /\ UNCHANGED <<Free, accel, g_npush, g_tag, g_discarded, g_ack_in_window>>
    /\ UNCHANGED <<adcVars, queue_mpu, semaphore_reply, semaphore_error,
                   semaphore_config, errVars, cfgVars, g_last_sent, extVars,
                   g_cfgVars>>

\* buffer_queue_get_inuse times out with nothing queued: the "ERROR"
\* branch, and app_update returns.
AppGetInuseTimeout ==
    /\ app_pc = "get_inuse"
    /\ buffer_queue_get_inuse(Queued) = NULL
    /\ app_pc' = "recv"
    /\ UNCHANGED <<app_buf, accel>>
    /\ UNCHANGED <<poolVars, adcVars, queue_mpu, semaphore_reply,
                   semaphore_error, semaphore_config, errVars, cfgVars,
                   g_poolVars, g_appVars, g_last_sent, extVars, g_cfgVars>>

\* Mult reading accel[1], the second component.
Mult_SecondComponent(acc) == acc[2]

\* float mult = app->accel[0].
Mult(acc) == acc[1]

\* The loop of bluetooth_write(buf[i] * mult) over the buffer held: the
\* arguments of the calls, first to last.  (The vectors of AccelValues are
\* whole numbers, and so are the bytes: their float product is exact.)
AppForward ==
    /\ app_pc = "forward"
    /\ app_pc' = "return"
    /\ g_forwarded' = [i \in 1..APP_DATA_BUF_SIZE |->
                          BufBytes(buffer_queue_mem, app_buf)[i] * Mult(accel)]
    /\ g_ack_in_window' = FALSE
    /\ UNCHANGED <<app_buf, accel, g_app_tag, g_app_errs, g_app_rel,
                   g_last_recv>>
    /\ UNCHANGED <<poolVars, adcVars, queue_mpu, semaphore_reply,
                   semaphore_error, semaphore_config, errVars, cfgVars,
                   g_poolVars, g_last_sent, memVars, g_err_in_hold,
                   g_cfgVars>>

\* AppReturn with the buffer_queue_return moved behind the wait for the
\* reply: the consumer goes into the wait still holding the buffer.
AppReturn_AfterWait ==
    /\ app_pc = "return"
    /\ app_pc' = "wait_reply"
    /\ UNCHANGED <<app_buf, accel>>
    /\ UNCHANGED <<poolVars, adcVars, queue_mpu, semaphore_reply,
                   semaphore_error, semaphore_config, errVars, cfgVars,
                   g_poolVars, g_appVars, g_last_sent, extVars, g_cfgVars>>

\* buffer_queue_return of the forwarded buffer, before the wait.
AppReturn ==
    /\ app_pc = "return"
    /\ Free' = buffer_queue_return(Free, app_buf)
    /\ app_buf' = NULL
    /\ app_pc' = "wait_reply"
    /\ g_tag' = [g_tag EXCEPT ![app_buf] = 0]
    /\ g_app_rel' = app_buf
    /\ g_forwarded' = <<>>
    /\ UNCHANGED <<Queued, accel, g_npush, g_delivered, g_discarded,
                   g_app_tag, g_app_errs, g_ack_in_window, g_last_recv>>
    /\ UNCHANGED <<adcVars, queue_mpu, semaphore_reply, semaphore_error,
                   semaphore_config, errVars, cfgVars, g_last_sent, memVars,
                   g_err_in_hold, g_cfgVars>>

\* xSemaphoreTake(semaphore_reply, bluetooth_timeout) == pdTRUE.
AppReplyTaken ==
    /\ app_pc = "wait_reply"
    /\ semaphore_reply = 1
    /\ semaphore_reply' = 0
    /\ app_pc' = "recv"
    /\ UNCHANGED <<app_buf, accel>>
    /\ UNCHANGED <<poolVars, adcVars, queue_mpu, semaphore_error,
                   semaphore_config, errVars, cfgVars, g_poolVars,
                   g_appVars, g_last_sent, extVars, g_cfgVars>>

\* The take times out (the semaphore stayed empty for the whole wait):
\* xSemaphoreGive(semaphore_error).
AppReplyTimeout ==
    /\ app_pc = "wait_reply"
    /\ semaphore_reply = 0
    /\ semaphore_error' = 1
    /\ app_pc' = "recv"
    /\ g_app_errs' = g_app_errs + 1
    /\ g_err_in_hold' = IF semaphore_error = 0 THEN err_pc = "hold"
                                               ELSE g_err_in_hold
    /\ UNCHANGED <<app_buf, accel, g_app_tag, g_app_rel, g_ack_in_window>>
    /\ UNCHANGED <<poolVars, adcVars, queue_mpu, semaphore_reply,
                   semaphore_config, errVars, cfgVars, g_poolVars,
                   g_last_sent, memVars, g_fwdVars, g_cfgVars>>

ConsumerNext ==
    \/ AppRecv
    \/ AppGetInuse
    \/ AppGetInuseTimeout
    \/ AppForward
    \/ AppReturn
    \/ AppReplyTaken
    \/ AppReplyTimeout

(* ------------------- vTaskBluetooth / bluetooth_update ---------------- *)
\* bluetooth_read got a byte: xSemaphoreGive(semaphore_reply).  (Without a
\* byte bluetooth_update changes nothing.)
BluetoothUpdate ==
    /\ semaphore_reply' = 1
    /\ g_ack_in_window' =
          IF app_pc \in {"return", "wait_reply"} THEN TRUE ELSE g_ack_in_window
    /\ UNCHANGED <<g_app_tag, g_app_errs, g_app_rel>>
    /\ UNCHANGED <<poolVars, adcVars, appVars, queue_mpu, semaphore_error,
                   semaphore_config, errVars, cfgVars, g_poolVars,
                   g_last_sent, extVars, g_cfgVars>>

(* ------------------------------ vTaskError ---------------------------- *)
\* xSemaphoreTake(semaphore_error, portMAX_DELAY) returns; LED_1 on.
ErrorTake ==
    /\ err_pc = "wait"
    /\ semaphore_error = 1
    /\ semaphore_error' = 0
    /\ LED_1' = 1
    /\ err_pc' = "hold"
    /\ UNCHANGED <<poolVars, adcVars, appVars, queue_mpu, semaphore_reply,
                   semaphore_config, cfgVars, g_poolVars, g_appVars,
                   g_last_sent, extVars, g_cfgVars>>

\* ErrorHoldExpire without the Board_LED_Set(LED_1, 0) at the top of the
\* loop: the task goes back to the take with the indicator on.
ErrorHoldExpire_LedStaysOn ==
    /\ err_pc = "hold"
    /\ err_pc' = "wait"
    /\ UNCHANGED LED_1
    /\ UNCHANGED <<poolVars, adcVars, appVars, queue_mpu, semaphore_reply,
                   semaphore_error, semaphore_config, cfgVars, g_poolVars,
                   g_appVars, g_last_sent, extVars, g_cfgVars>>

\* vTaskDelay(APP_ERROR_ONTIME) is over; LED_1 off, back to the take.
ErrorHoldExpire ==
    /\ err_pc = "hold"
    /\ LED_1' = 0
    /\ err_pc' = "wait"
    /\ UNCHANGED <<poolVars, adcVars, appVars, queue_mpu, semaphore_reply,
                   semaphore_error, semaphore_config, cfgVars, g_poolVars,
                   g_appVars, g_last_sent, extVars, g_cfgVars>>

ErrorNext ==
    \/ ErrorTake
    \/ ErrorHoldExpire

(* ------------------------------- vTaskMPU ----------------------------- *)
\* mpu_get_accelerometer(accel); xQueueSendToBack(queue_mpu, accel, 0).
MpuSend ==
    \E v \in AccelValues :
        /\ queue_mpu' = xQueueSendToBack(queue_mpu, v)
        /\ g_last_sent' = v
        /\ UNCHANGED <<poolVars, adcVars, appVars, semaphore_reply,
                       semaphore_error, semaphore_config, errVars, cfgVars,
                       g_poolVars, g_appVars, g_cfgVars, extVars>>

(* --------------------- vTaskConfig / config_update -------------------- *)
\* debouncer_update: a level differing from the accepted one for
\* DEBOUNCE_SAMPLES polls in a row is accepted, and the edge flag is up for
\* that poll only.
debouncer_update(d, pin) ==
    IF pin = d.state
       THEN [state |-> d.state, count |-> 0, edge |-> FALSE]
       ELSE IF d.count + 1 >= DEBOUNCE_SAMPLES
               THEN [state |-> pin, count |-> 0, edge |-> TRUE]
               ELSE [state |-> d.state, count |-> d.count + 1, edge |-> FALSE]

debouncer_is_edge(d) == d.edge
debouncer_is_hi(d) == d.state

\* config_update, first part: -1 for an edge to hi of the left button, +1
\* for one of the right button (which wins when both come in one poll).
modify_sample_rate(left, right) ==
    IF debouncer_is_edge(right) /\ debouncer_is_hi(right) THEN 1
    ELSE IF debouncer_is_edge(left) /\ debouncer_is_hi(left) THEN -1
    ELSE 0

\* NewSamplePeriod without the comparison with APP_ADC_MAX_RATE.
NewSamplePeriod_NoUpperLimit(period, modify) ==
    IF modify > 0 THEN period + 1
    ELSE IF modify < 0 /\ period > APP_ADC_MIN_RATE THEN period - 1
    ELSE period

\* config_update, the two guarded assignments to config.sample_period.
NewSamplePeriod(period, modify) ==
    IF modify > 0 /\ period < APP_ADC_MAX_RATE THEN period + 1
    ELSE IF modify < 0 /\ period > APP_ADC_MIN_RATE THEN period - 1
    ELSE period

\* config_write_calls with the write skipped when the period did not change.
config_write_calls_OnChange(sd_present, old_period, new_period) ==
    IF sd_present # 0 /\ new_period # old_period THEN 1 ELSE 0

\* config_update with a button event: the calls of config_write it makes.
config_write_calls(sd_present, old_period, new_period) ==
    IF sd_present # 0 THEN 1 ELSE 0

\* What config_init can load from the card: a stored period, or -1 for a
\* card or file error.
ConfigInitResults == {-1} \cup (APP_ADC_MIN_RATE..APP_ADC_MAX_RATE)

\* vTaskConfig before its loop: the debouncers, then config_init; on an
\* error the default period and no card.
CfgInit ==
    /\ cfg_pc = "init"
    /\ button_left' = debouncer_init
    /\ button_right' = debouncer_init
    /\ \E r \in ConfigInitResults :
          IF r < 0
             THEN sample_period' = 0 /\ config_sd_present' = 0
             ELSE sample_period' = r /\ config_sd_present' = 1
    /\ cfg_pc' = "poll"
    /\ g_period0' = sample_period'
    /\ UNCHANGED <<g_events, g_changes, g_config_write, g_ups>>
    /\ UNCHANGED <<poolVars, adcVars, appVars, queue_mpu, semaphore_reply,
                   semaphore_error, semaphore_config, errVars, g_poolVars,
                   g_appVars, g_last_sent, extVars>>

\* One turn of the loop of vTaskConfig: buttons_update on the pin levels
\* read, then config_update.  (The up and down buttons are debounced too
\* and read by nothing.)  config_write is called whenever a button event
\* came and the card is present; its result only decides a message.
CfgPoll ==
    /\ cfg_pc = "poll"
    /\ g_events < MaxEvents
    /\ \E pin_left \in BOOLEAN, pin_right \in BOOLEAN :
          /\ button_left' = debouncer_update(button_left, pin_left)
          /\ button_right' = debouncer_update(button_right, pin_right)
    /\ LET modify == modify_sample_rate(button_left', button_right')
       IN  IF modify # 0
              THEN /\ sample_period' = NewSamplePeriod(sample_period, modify)
                   /\ g_config_write' = g_config_write
                         + config_write_calls(config_sd_present,
                                              sample_period, sample_period')
                   /\ semaphore_config' = 1
                   /\ g_events' = g_events + 1
                   /\ g_ups' = IF modify > 0 THEN g_ups + 1 ELSE g_ups
                   /\ g_changes' =
                         IF sample_period' # sample_period
                            THEN g_changes + 1 ELSE g_changes
              ELSE UNCHANGED <<sample_period, g_config_write,
                               semaphore_config, g_events, g_changes, g_ups>>
    /\ UNCHANGED <<cfg_pc, config_sd_present, g_period0>>
    /\ UNCHANGED <<poolVars, adcVars, appVars, queue_mpu, semaphore_reply,
                   semaphore_error, errVars, g_poolVars, g_appVars,
                   g_last_sent, extVars>>

ConfigNext ==
    \/ CfgInit
    \/ CfgPoll

(* --------------------------- specifications --------------------------- *)
Next ==
    \/ ProducerNext
    \/ ConsumerNext
    \/ BluetoothUpdate
    \/ ErrorNext
    \/ MpuSend
    \/ ConfigNext
    \/ AdcSignal

\* All six tasks.
Spec == Init /\ [][Next]_vars

\* The tasks around the buffer pool and the reply and error semaphores.
SpecPool ==
    Init /\ [][ProducerNext \/ ConsumerNext \/ BluetoothUpdate]_vars

\* The accelerometer queue: its writer, and its reader while no buffer is
\* pushed (app_update receives, then times out on the pool).
SpecMailbox == Init /\ [][MpuSend \/ AppRecv \/ AppGetInuseTimeout]_vars

\* The configuration task.
SpecConfig == Init /\ [][ConfigNext]_vars

\* vTaskApp while no byte arrives on the Bluetooth UART: bluetooth_update
\* never gives semaphore_reply.
SilentConsumerNext ==
    \/ AppRecv
    \/ AppGetInuse
    \/ AppGetInuseTimeout
    \/ AppForward
    \/ AppReturn
    \/ AppReplyTimeout

\* vTaskApp is blocked: in buffer_queue_get_inuse with nothing queued, or
\* in the xSemaphoreTake of the reply.
AppBlocked ==
    \/ app_pc = "get_inuse" /\ Queued = <<>>
    \/ app_pc = "wait_reply"

\* The error indicator under the priorities of app_init: vTaskADC
\* (tskIDLE_PRIORITY+1) runs only while vTaskApp (+2) is blocked; the
\* consumer gets no reply; vTaskError (+3) runs as soon as its take or its
\* delay lets it.
ProducerRuns == AppBlocked /\ ProducerNext

SpecLatch ==
    /\ Init
    /\ [][ProducerRuns \/ SilentConsumerNext \/ ErrorNext]_vars
    /\ WF_vars(ErrorNext)

\* The producer up to push number MaxScalePush.
ScaleProducer == ProducerRuns /\ g_npush' <= MaxScalePush

\* The input changes while the producer holds no buffer: each buffer
\* carries one reading in all its bytes.
AdcSignalBetweenBuffers ==
    adc_pc = "config" /\ current_buffer = NULL /\ AdcSignal

\* A send of vTaskMPU right before the consumer's xQueueReceive.  (Only
\* xQueueReceive reads queue_mpu: a send made earlier in the consumer's
\* iteration leaves the queue in the same state at the receive.)
MpuSendAtRecv == app_pc = "recv" /\ MpuSend

\* The scaling: the producer reading a changing input, vTaskMPU sending
\* vectors, and the consumer with no reply coming.
SpecScale ==
    Init /\ [][ScaleProducer \/ SilentConsumerNext \/ MpuSendAtRecv
                  \/ AdcSignalBetweenBuffers]_vars

\* vTaskADC (tskIDLE_PRIORITY+1) gets the processor once vTaskConfig (+3)
\* is in its first vTaskDelayUntil, config_init done; its run is followed
\* up to push number MaxScalePush.
RateProducer ==
    cfg_pc # "init" /\ ProducerNext /\ g_npush' <= MaxScalePush

\* The start of vTaskConfig with one of three stored periods (the two
\* limits and one between them), or with no card.
RatePeriods == { APP_ADC_MIN_RATE, 5, APP_ADC_MAX_RATE }
RateCfgInit == CfgInit /\ sample_period' \in RatePeriods

\* The polls of vTaskConfig while the producer's run is followed, up to
\* MaxRateEvents button events, with one button worked at a time.
RateCfgPoll ==
    /\ CfgPoll
    /\ g_events' <= MaxRateEvents
    /\ g_npush < MaxScalePush
    /\ button_left' = debouncer_init \/ button_right' = debouncer_init

\* The sampling rate: vTaskConfig and the producer, which runs whenever
\* vTaskConfig sleeps (nothing else is ready in between for ever).
SpecRate ==
    /\ Init
    /\ [][RateCfgInit \/ RateCfgPoll \/ RateProducer]_vars
    /\ WF_vars(RateProducer)

\* The pool with both of its tasks and no reply coming, under the
\* priorities of app_init: vTaskADC runs while vTaskApp is blocked. Each
\* block of vTaskApp lasts a timeout of several ticks, so vTaskADC, which
\* is ready again and again, does run (strong fairness); vTaskApp runs as
\* soon as it is ready.
SpecLeak ==
    /\ Init
    /\ [][ProducerRuns \/ SilentConsumerNext]_vars
    /\ SF_vars(ProducerRuns)
    /\ WF_vars(SilentConsumerNext)

(* ------------------------- the pool's four sets ----------------------- *)
Range(seq) == { seq[i] : i \in 1..Len(seq) }

\* Buffers taken with buffer_queue_get_avail and not pushed yet.
CheckedOutProducer == {current_buffer} \ {NULL}

\* Buffers taken with buffer_queue_get_inuse and not returned yet: the one
\* the consumer forwards, and the one the producer is reclaiming.
CheckedOutConsumer == {app_buf, adc_buf} \ {NULL}

\* In how many places buffer b is: free, queued (each time), held.
NumPlaces(b) ==
    (IF b \in Free THEN 1 ELSE 0)
    + Cardinality({ i \in 1..Len(Queued) : Queued[i] = b })
    + (IF current_buffer = b THEN 1 ELSE 0)
    + (IF app_buf = b THEN 1 ELSE 0)
    + (IF adc_buf = b THEN 1 ELSE 0)

\* The pushes of the queued buffers, oldest first.
QueuedTags == [i \in 1..Len(Queued) |-> g_tag[Queued[i]]]

StrictlyIncreasing(seq) ==
    \A i, j \in 1..Len(seq) : i < j => seq[i] < seq[j]

(* -------------------------------- C1 ---------------------------------- *)
\* C1: in every reachable state, under any interleaving of the producer
\* (reclaim included) and the consumer, each of the N buffers is in exactly
\* one of Free, Queued, CheckedOutProducer, CheckedOutConsumer, and the
\* four sets together are the whole pool.
C1_Partition ==
    /\ \A b \in Buffers : NumPlaces(b) = 1
    /\ Free \cup Range(Queued) \cup CheckedOutProducer \cup CheckedOutConsumer
          = Buffers

\* The consumer forwards one buffer while the producer reclaims another and
\* a third is still queued.
C1_Witness ==
    /\ app_buf # NULL
    /\ adc_buf # NULL
    /\ Queued # <<>>

(* -------------------------------- C2 ---------------------------------- *)
\* C2: the consumer gets the buffers in the order of their pushes, each
\* push at most once, and what is still queued is in push order after
\* everything delivered: the reclaim removes entries and never reorders
\* the ones it leaves.
C2_Fifo ==
    /\ StrictlyIncreasing(g_delivered \o QueuedTags)
    /\ \A i \in 1..Len(g_delivered) : g_delivered[i] \in 1..g_npush
    /\ \A i \in 1..Len(Queued) : QueuedTags[i] \in 1..g_npush

\* Two buffers delivered, the second one pushed after a push that was
\* reclaimed, with buffers still queued.
C2_Witness ==
    /\ Len(g_delivered) >= 2
    /\ \E d \in g_discarded : g_delivered[Len(g_delivered)] > d
    /\ Queued # <<>>

(* -------------------------------- C3 ---------------------------------- *)
\* C3 as stated: every failed buffer_queue_get_avail is followed by the
\* discard of exactly one buffer, the oldest queued one.
C3_DiscardPerFailedAcquire ==
    [][(adc_pc = "reclaim" /\ adc_pc' # "reclaim")
          => /\ Queued # <<>>
             /\ adc_buf' = Head(Queued)
             /\ Queued' = Tail(Queued)
             /\ adc_pc' = "reclaim_return"]_vars

\* C3, amended: a failed buffer_queue_get_avail discards at most one
\* buffer.  When something is queued at the producer's
\* buffer_queue_get_inuse, exactly the oldest entry is taken out, the rest
\* stays queued in its order, and the entry is returned straight to Free,
\* without having been or ever being handed to the consumer; when the
\* consumer has emptied the queue in between, nothing is discarded and the
\* producer holds no buffer in this cycle.
C3_Reclaim ==
    /\ [][(adc_pc = "reclaim" /\ adc_pc' # "reclaim")
            => IF Queued # <<>>
                  THEN /\ adc_buf' = Head(Queued)
                       /\ Queued' = Tail(Queued)
                       /\ adc_pc' = "reclaim_return"
                       /\ UNCHANGED <<Free, g_discarded>>
                  ELSE /\ adc_pc' = "config"
                       /\ current_buffer' = NULL
                       /\ UNCHANGED <<Free, Queued, adc_buf, g_discarded>>]_vars
    /\ [][(adc_pc = "reclaim_return" /\ adc_pc' # "reclaim_return")
            => /\ Free' = Free \cup {adc_buf}
               /\ adc_buf \notin Free
               /\ Queued' = Queued
               /\ g_discarded' = g_discarded \cup {g_tag[adc_buf]}
               /\ Cardinality(g_discarded') = Cardinality(g_discarded) + 1
               /\ adc_buf' = NULL
               /\ current_buffer' = NULL
               /\ adc_pc' = "config"]_vars
    /\ [](g_discarded \cap Range(g_delivered) = {})

\* A reclaim has just ended, with younger buffers left in the queue.
C3_Witness ==
    /\ adc_pc = "config"
    /\ g_discarded # {}
    /\ Queued # <<>>
    /\ Free # {}
    /\ current_buffer = NULL

(* -------------------------------- C4 ---------------------------------- *)
\* Buffers in the pool and in the tasks' hands, counted with repetition.
TotalBuffers ==
    Cardinality(Free) + Len(Queued)
    + Cardinality({ v \in {1, 2, 3} :
                      <<current_buffer, adc_buf, app_buf>>[v] # NULL })

\* C4: with the producer running alone (no step of the consumer or of any
\* other task), whenever it starts a cycle holding no buffer while Free is
\* empty and Queued is not, it goes on to reclaim a buffer and then gets a
\* buffer from buffer_queue_get_avail; the number of buffers stays N.
C4_ReclaimLiveness ==
    /\ (adc_pc = "update" /\ current_buffer = NULL /\ Free = {}
             /\ Queued # <<>>)
          ~> (adc_pc = "read" /\ current_buffer # NULL /\ g_discarded # {})
    /\ [](TotalBuffers = APP_DATA_BUF_NMBR)

\* The producer has just got, from Free, the buffer it reclaimed.
C4_Witness ==
    /\ adc_pc = "read"
    /\ current_buffer # NULL
    /\ g_discarded # {}
    /\ Free = {}
    /\ Len(Queued) = APP_DATA_BUF_NMBR - 1

(* -------------------------------- C5 ---------------------------------- *)
\* The producer has pushed one buffer more than the pool holds, the
\* consumer never ran, and nothing was reclaimed after that push.
ScenarioA ==
    /\ g_npush = APP_DATA_BUF_NMBR + 1
    /\ Len(Queued) = APP_DATA_BUF_NMBR
    /\ g_delivered = <<>>

\* C5 as stated: in scenario A (pool of N = 4, N + 1 = 5 pushes, no
\* consumer) the 2nd push is the discarded one, and pushes 1, 3, ..., N + 1
\* are still there for the consumer.
C5_SecondDiscarded ==
    ScenarioA => /\ g_discarded = {2}
                 /\ Range(QueuedTags) = (1..(APP_DATA_BUF_NMBR + 1)) \ {2}

\* C5, amended: in scenario A the 1st (oldest) push is the discarded one,
\* and pushes 2, ..., N + 1 are queued for the consumer, in that order.
C5_FirstDiscarded ==
    ScenarioA => /\ g_discarded = {1}
                 /\ QueuedTags = [i \in 1..APP_DATA_BUF_NMBR |-> i + 1]

\* Scenario A, right after the push that followed the reclaim.
C5_Witness ==
    /\ ScenarioA
    /\ adc_pc = "config"
    /\ current_buffer = NULL

(* -------------------------------- C6 ---------------------------------- *)
\* C6: the accelerometer queue is last-write-wins: what the consumer
\* receives is the vector of the latest send, also after two sends with no
\* receive in between.
C6_LastWriteWins ==
    [][(app_pc = "recv" /\ app_pc' = "get_inuse" /\ queue_mpu # <<>>)
          => accel' = g_last_sent]_vars

(* -------------------------------- C7 ---------------------------------- *)
\* The consumer's wait for the reply ends by timeout in this step.
ReplyTimesOut ==
    app_pc = "wait_reply" /\ app_pc' = "recv" /\ semaphore_reply = 0

\* The push the consumer worked on was handed to it once and is not queued.
NotResent ==
    /\ Cardinality({ i \in 1..Len(g_delivered) : g_delivered[i] = g_app_tag }) = 1
    /\ g_app_tag \notin Range(QueuedTags)

\* C7 as stated: when the wait for the reply times out, the error signal
\* is raised once for the batch, the batch is not sent again, and the
\* batch's buffer is in Free at that moment.
C7_BufferInFreeAtError ==
    [][ReplyTimesOut
          => /\ g_app_errs' = 1
             /\ semaphore_error' = 1
             /\ NotResent
             /\ app_buf = NULL
             /\ g_app_rel \in Free]_vars

\* C7, amended: when the wait for the reply times out, the error signal is
\* raised once for the batch, the batch is not sent again, and the consumer
\* has returned the batch's buffer to Free before the wait: at the error
\* it holds no buffer, and the buffer is in Free unless the producer has
\* taken it from there since (it is being filled, or carries a later push).
C7_ErrorOnceAfterRelease ==
    /\ [][ReplyTimesOut
            => /\ g_app_errs' = 1
               /\ semaphore_error' = 1
               /\ NotResent
               /\ app_buf = NULL
               /\ g_app_rel \in Buffers
               /\ \/ g_app_rel \in Free
                  \/ g_app_rel = current_buffer
                  \/ g_tag[g_app_rel] > g_app_tag]_vars
    /\ [][(app_pc = "return" /\ app_pc' # "return")
            => /\ app_pc' = "wait_reply"
               /\ app_buf \in Free'
               /\ app_buf' = NULL
               /\ g_app_rel' = app_buf]_vars
    /\ [](g_app_errs <= 1)

\* The error was raised for a batch whose buffer is still free.
C7_Witness ==
    /\ app_pc = "recv"
    /\ g_app_errs = 1
    /\ semaphore_error = 1
    /\ g_app_rel \in Free
    /\ g_app_tag >= 1

(* -------------------------------- C8 ---------------------------------- *)
\* C8: for every batch forwarded, when no byte arrives between the end of
\* the forwarding and the end of the wait, the consumer raises the error
\* signal for the batch, whatever was signalled before the forwarding.
C8_ErrorPerUnackedBatch ==
    [][(app_pc = "wait_reply" /\ app_pc' = "recv" /\ ~g_ack_in_window)
          => /\ g_app_errs' = 1
             /\ semaphore_error' = 1]_vars

(* -------------------------------- C9 ---------------------------------- *)
\* C9: whatever button edges vTaskConfig processes, the sample period is
\* within [APP_ADC_MIN_RATE, APP_ADC_MAX_RATE] in every reachable state.
C9_PeriodBound == sample_period \in APP_ADC_MIN_RATE..APP_ADC_MAX_RATE

\* Edges at both ends were processed: an increase asked for at the maximum
\* earlier on, and the period back at the minimum now.
C9_Witness ==
    /\ cfg_pc = "poll"
    /\ sample_period = APP_ADC_MIN_RATE
    /\ g_period0 = APP_ADC_MAX_RATE
    /\ g_ups >= 1
    /\ g_changes = APP_ADC_MAX_RATE - APP_ADC_MIN_RATE
    /\ g_events > g_changes + g_ups

(* -------------------------------- C10 --------------------------------- *)
Min(a, b) == IF a < b THEN a ELSE b

\* C10 as stated: with the card present, config_write is called once per
\* edge that changed the period, and not for an edge at the limit.
C10_WritePerChange ==
    config_sd_present = 1 => g_config_write = g_changes

\* C10, amended: with the card present, config_write is called once per
\* edge processed, also for an edge at the limit, which leaves the period
\* as it is; without the card it is never called.  Increase edges alone,
\* from period 0: after k of them the period is min(k, MAX), min(k, MAX) of
\* them changed it, and config_write was called k times (20 edges with
\* MAX = 9: period 9, 9 changes, 20 calls).
C10_WritePerEvent ==
    /\ config_sd_present = 1 => g_config_write = g_events
    /\ config_sd_present = 0 => g_config_write = 0
    /\ g_changes <= g_events
    /\ (g_period0 = APP_ADC_MIN_RATE /\ g_ups = g_events)
          => /\ sample_period = Min(g_events, APP_ADC_MAX_RATE)
             /\ g_changes = Min(g_events, APP_ADC_MAX_RATE)

\* Scenario C: 20 increase edges from period 0 with the card present.
C10_Witness ==
    /\ config_sd_present = 1
    /\ g_period0 = 0
    /\ g_ups = 20
    /\ g_events = 20
    /\ sample_period = APP_ADC_MAX_RATE
    /\ g_changes = 9
    /\ g_config_write = 20

(* -------------------------------- C11 --------------------------------- *)
\* C11: an error signal given while vTaskError is in its hold is ignored:
\* the indicator goes on only for a signal given after the hold was over.
C11_IgnoredInHold ==
    [][(LED_1 = 0 /\ LED_1' = 1) => ~g_err_in_hold]_vars

(* -------------------------------- C12 --------------------------------- *)
\* C12: with vTaskError scheduled fairly, a pending error signal is always
\* followed by its take with the indicator on, and the indicator being on
\* by the indicator off with vTaskError back at the take; the indicator is
\* on exactly during the hold, and it goes on only in a step that takes a
\* pending error signal, which the consumer gave for a delivered batch.
C12_LatchCycle ==
    /\ (semaphore_error = 1) ~> (semaphore_error = 0 /\ LED_1 = 1)
    /\ (LED_1 = 1) ~> (LED_1 = 0 /\ err_pc = "wait")
    /\ []((LED_1 = 1) <=> (err_pc = "hold"))
    /\ [][(LED_1 = 0 /\ LED_1' = 1)
            => /\ semaphore_error = 1
               /\ semaphore_error' = 0
               /\ g_delivered # <<>>]_vars
    /\ [][(LED_1 = 1 /\ LED_1' = 0) => err_pc' = "wait"]_vars

\* An error was raised for the current batch and taken, and the hold that
\* followed is over.
C12_Witness ==
    /\ g_app_errs = 1
    /\ semaphore_error = 0
    /\ LED_1 = 0
    /\ err_pc = "wait"

(* -------------------------------- C13 --------------------------------- *)
\* The consumer ends the forwarding of the buffer it holds in this step.
Forwards == app_pc = "forward" /\ app_pc' # "forward"

\* C13: once a vector has been received from the queue, every value the
\* consumer passes to bluetooth_write is the byte of the buffer times the
\* first component of the latest vector received, which app->accel keeps
\* while the queue is empty; with (1, 2, 3) received last, a buffer of 10s
\* is forwarded as 10s.
C13_ScaledByLastReceived ==
    /\ [][(Forwards /\ g_last_recv # <<>>)
            => g_forwarded' =
                  [i \in 1..APP_DATA_BUF_SIZE |->
                     BufBytes(buffer_queue_mem, app_buf)[i] * g_last_recv[1]]]_vars
    /\ [][(Forwards /\ g_last_recv = <<1, 2, 3>>
              /\ BufBytes(buffer_queue_mem, app_buf)
                    = [i \in 1..APP_DATA_BUF_SIZE |-> 10])
            => g_forwarded' = [i \in 1..APP_DATA_BUF_SIZE |-> 10]]_vars
    /\ [](g_last_recv # <<>> => accel = g_last_recv)

\* Scenario D on the second batch delivered, after a first batch of
\* another reading.
C13_Witness ==
    /\ app_pc = "return"
    /\ g_last_recv = <<1, 2, 3>>
    /\ Len(g_delivered) >= 2
    /\ \E a \in MemCells : buffer_queue_mem[a] = 200
    /\ BufBytes(buffer_queue_mem, app_buf) = [i \in 1..APP_DATA_BUF_SIZE |-> 10]
    /\ g_forwarded = [i \in 1..APP_DATA_BUF_SIZE |-> 10]

(* -------------------------------- C14 --------------------------------- *)
\* C14: while no vector has been received from the queue, the consumer
\* forwards every byte of the buffer as it is.
C14_NeutralDefault ==
    [][(Forwards /\ g_last_recv = <<>>)
          => g_forwarded' = BufBytes(buffer_queue_mem, app_buf)]_vars

(* -------------------------------- C15 --------------------------------- *)
\* C15: the producer's xSemaphoreTake(semaphore_config, 0), when it takes
\* the signal, changes the delay (to the one of the current period) and
\* nothing else of the producer: the buffer being filled, its counter, the
\* bytes written and the pool stay as they are; nor does the change of the
\* period by vTaskConfig touch any of them.
C15_RateChangeFrame ==
    /\ [][(adc_pc = "config" /\ adc_pc' # "config" /\ semaphore_config = 1)
            => /\ xTaskDelay' = AdcDelay(sample_period)
               /\ semaphore_config' = 0
               /\ UNCHANGED <<current_buffer, samples_in_buffer, adc_buf,
                              Free, Queued, buffer_queue_mem, g_written,
                              g_npush>>]_vars
    /\ [][(sample_period' # sample_period \/ semaphore_config' > semaphore_config)
            => UNCHANGED <<current_buffer, samples_in_buffer, adc_buf,
                           Free, Queued, buffer_queue_mem, g_written,
                           g_npush, xTaskDelay>>]_vars

\* The producer has taken up a new delay with a buffer half filled.
C15_Witness ==
    /\ adc_pc = "update"
    /\ current_buffer # NULL
    /\ samples_in_buffer = 1
    /\ g_written = 1
    /\ semaphore_config = 0
    /\ g_changes >= 1
    /\ xTaskDelay # AdcDelay(g_period0)

(* -------------------------------- C20 --------------------------------- *)
\* C20: whenever the producer is at the start of an iteration and no
\* configuration signal is pending, its delay is (sample_period + 1) * 10,
\* for the period config_init loaded as for one set by the buttons; and a
\* delay that differs from the one of the current period is always
\* followed by the producer taking up the period.
C20_DelayFollowsPeriod ==
    /\ []((adc_pc = "update" /\ semaphore_config = 0)
            => xTaskDelay = AdcDelay(sample_period))
    /\ (adc_pc # "init" /\ xTaskDelay # AdcDelay(sample_period))
          ~> (xTaskDelay = AdcDelay(sample_period) /\ semaphore_config = 0)

\* The producer runs with the delay of a period that was loaded from the
\* card and then changed by a button.
C20_Witness ==
    /\ adc_pc = "update"
    /\ semaphore_config = 0
    /\ config_sd_present = 1
    /\ g_period0 = 5
    /\ sample_period = 6
    /\ xTaskDelay = 70
    /\ g_npush >= 1

(* -------------------------------- C16 --------------------------------- *)
\* The producer's reclaim finds nothing queued in this step.
ProducerStarves == adc_pc = "reclaim" /\ Queued = <<>> /\ adc_pc' # "reclaim"

\* The consumer's buffer_queue_get_inuse times out in this step.
ConsumerTimesOut == app_pc = "get_inuse" /\ app_pc' = "recv"

\* C16: a failed acquisition raises the error condition and is not fatal:
\* the producer that finds nothing free and nothing queued, and the
\* consumer whose buffer_queue_get_inuse times out, raise the error signal,
\* take no buffer, write and forward nothing, leave the pool as it is and
\* go on to their next iteration.
C16_FailedAcquireReported ==
    [][/\ ProducerStarves
            => /\ semaphore_error' = 1
               /\ current_buffer' = NULL
               /\ adc_pc' = "config"
               /\ UNCHANGED <<Free, Queued, buffer_queue_mem>>
       /\ ConsumerTimesOut
            => /\ semaphore_error' = 1
               /\ app_buf' = NULL
               /\ UNCHANGED <<Free, Queued, g_forwarded, semaphore_reply>>]_vars

(* -------------------------------- C17 --------------------------------- *)
\* The producer writes a sample in this step.
WritesSample == samples_in_buffer' = samples_in_buffer + 1

\* C17: the producer writes a sample only into the buffer it holds, which
\* is then in no other place, at the index of its counter, which is within
\* 0..APP_DATA_BUF_SIZE-1 and counts the samples written since the buffer
\* was acquired; an acquisition takes a free buffer and sets the counter to
\* 0; a buffer is pushed exactly when APP_DATA_BUF_SIZE samples have been
\* written to it, and the producer then holds no buffer, so that it writes
\* to that buffer again only after a new acquisition.
C17_FillCounter ==
    /\ [][WritesSample
            => /\ current_buffer # NULL
               /\ current_buffer' = current_buffer
               /\ NumPlaces(current_buffer) = 1
               /\ current_buffer \notin Free \cup Range(Queued) \cup {app_buf}
               /\ samples_in_buffer \in 0..(APP_DATA_BUF_SIZE - 1)
               /\ g_written = samples_in_buffer
               /\ buffer_queue_mem' =
                     [buffer_queue_mem EXCEPT
                        ![BufAddr(current_buffer, samples_in_buffer)] =
                            adc_in % 256]]_vars
    /\ [][buffer_queue_mem' # buffer_queue_mem => WritesSample]_vars
    /\ [][(current_buffer = NULL /\ current_buffer' # NULL)
            => /\ current_buffer' \in Free
               /\ current_buffer' \notin Free'
               /\ samples_in_buffer' = 0]_vars
    /\ [][(Queued' # Queued /\ Len(Queued') >= Len(Queued))
            => /\ g_written = APP_DATA_BUF_SIZE
               /\ samples_in_buffer = APP_DATA_BUF_SIZE
               /\ Queued' = Append(Queued, current_buffer)
               /\ current_buffer' = NULL]_vars
    /\ []((current_buffer # NULL /\ samples_in_buffer = APP_DATA_BUF_SIZE)
            => adc_pc = "push")
    /\ [](samples_in_buffer \in 0..APP_DATA_BUF_SIZE)

\* The producer is filling a buffer it got back from the consumer, after
\* having pushed a full pool of buffers.
C17_Witness ==
    /\ adc_pc = "config"
    /\ current_buffer # NULL
    /\ current_buffer = g_app_rel
    /\ samples_in_buffer = 1
    /\ g_npush >= APP_DATA_BUF_NMBR

(* -------------------------------- C18 --------------------------------- *)
\* The producer's last iteration ended without a buffer and without a
\* push: by the reclaim or by its failure (both set the counter to 0;
\* after a push it is APP_DATA_BUF_SIZE).
EndedWithoutBuffer ==
    /\ adc_pc \in {"config", "update"}
    /\ current_buffer = NULL
    /\ samples_in_buffer = 0

\* C18: after an iteration that ended without a buffer, by a reclaim or by
\* its failure, a buffer is free, and it stays so until the producer's
\* next buffer_queue_get_avail, which takes it; the sample is written in
\* that iteration, whatever the consumer does in between.
C18_NoTwoBufferlessIterations ==
    /\ [](EndedWithoutBuffer => Free # {})
    /\ [][(EndedWithoutBuffer /\ adc_pc = "update" /\ adc_pc' # "update")
            => /\ adc_pc' = "read"
               /\ current_buffer' \in Free]_vars
    /\ [][(adc_pc = "read" /\ adc_pc' # "read")
            => /\ WritesSample
               /\ current_buffer' = current_buffer
               /\ current_buffer # NULL]_vars

\* The reclaim failed (nothing was ever discarded, the consumer emptied the
\* queue in between), and the next iteration starts with a buffer free.
C18_Witness ==
    /\ EndedWithoutBuffer
    /\ adc_pc = "update"
    /\ g_npush >= 1
    /\ g_discarded = {}
    /\ Free # {}

(* -------------------------------- C19 --------------------------------- *)
\* The run followed ends here: the producer is about to make push number
\* MaxPush + 1.
RunEnds == adc_pc = "push" /\ g_npush = MaxPush

\* C19: with the producer and the consumer scheduled fairly, every buffer
\* that is not free is free again later (until the end of the run
\* followed, where the producer keeps the buffer it holds), and no task
\* stays in a call of the pool for ever; the number of buffers stays N.
C19_NoLeak ==
    /\ \A b \in Buffers :
          (b \notin Free) ~> (b \in Free \/ (RunEnds /\ current_buffer = b))
    /\ (app_pc = "get_inuse") ~> (app_pc # "get_inuse")
    /\ (adc_pc \in {"update", "reclaim", "reclaim_return"})
          ~> (adc_pc \in {"read", "config"} \/ RunEnds)
    /\ [](TotalBuffers = APP_DATA_BUF_NMBR)

\* Every buffer is free again after one batch was delivered and another
\* reclaimed.
C19_Witness ==
    /\ Free = Buffers
    /\ g_delivered # <<>>
    /\ g_discarded # {}

=============================================================================
